---- MODULE Spec2Model ----
(***************************************************************************)
(* Timing model of the Excalidraw video pipeline:                          *)
(*   - ExcalidrawAnimator.generateWithExcalidrawAnimate (the allocation    *)
(*     pass) with its sort, its groups and its descriptor factory;         *)
(*   - VoiceNarrator.groupElements / createAudioTimeline;                  *)
(*   - EnhancedExcalidrawPipeline.generateSynchronizedAnimation, for one    *)
(*     call and for two calls interleaving at their awaits;                *)
(*   - ExcalidrawParser.parseFile, VideoExporter.exportVideo and the       *)
(*     upload/authorize.js script with YouTubeUploader.initialize.         *)
(*                                                                         *)
(* Time is a JavaScript number in the source.  The model keeps it exact:   *)
(* every time value is an integer count of ticks, TicksPerMs ticks to the  *)
(* millisecond, so that 5000/(n+1), duration/k, 0.75*d and 0.25*d are      *)
(* integers for every group and segment size the bounds allow (n+1 and k   *)
(* up to 6).  Floating-point rounding is not modelled.                     *)
(***************************************************************************)
EXTENDS Integers, Sequences, FiniteSets, TLC

VARIABLES
    elements,        \* excalidrawData.elements, the caller's input
    pc,              \* position of the running generateWithExcalidrawAnimate
    sortedElements,  \* const sortedElements
    groups,          \* const groups = createAnimationGroups(sortedElements)
    idx,             \* forEach index into sortedElements (1-based)
    currentMs,       \* let currentMs
    animatedFrames,  \* const animatedFrames
    returned,        \* what the calls of generateWithExcalidrawAnimate made so far gave
    mode,            \* who calls the animator: "direct" (a script) or "pipeline"
    ppc,             \* position of EnhancedExcalidrawPipeline.processWithVoice
    narration,       \* narration.timeline, or absent
    syncedTimestamps,\* the timestamps handed to animator.generateAnimation
    speed,           \* this.animator.config.speed
    finalAnimation,  \* what generateSynchronizedAnimation returned
    calls,           \* the generateSynchronizedAnimation calls made on one pipeline
    active,          \* the call whose synchronous part ran last (0: none yet)
    parser,          \* the ExcalidrawParser object: this.elements, this.metadata
    parsed,          \* the last parseFile call: its argument, the parser before it, its outcome
    exporter,        \* the last VideoExporter.exportVideo call and how far it got
    disk,            \* credentials.json and token.json
    script           \* the run of upload/authorize.js and a later initialize()

allocVars == <<sortedElements, groups, idx, currentMs, animatedFrames>>

pipeVars == <<ppc, narration, syncedTimestamps, speed, finalAnimation>>

\* who drives the animator
toolVars == <<parser, parsed, exporter, disk, script>>

hostVars == <<mode, calls, active, toolVars>>

vars == <<elements, pc, sortedElements, groups, idx, currentMs, animatedFrames, returned,
          mode, ppc, narration, syncedTimestamps, speed, finalAnimation, calls, active,
          parser, parsed, exporter, disk, script>>

\* ------------------------------------------------------------------ bounds

MaxElems == 3

MaxCalls == 2

MaxShapes == 1
MaxScript == 4

TicksPerMs == 3 * 4 * 5

Ms(n) == n * TicksPerMs

\* --------------------------------------------------------------- constants

leadingMarginMs == 1000

groupDur == 5000

individualDur == 500

finalMarginMs == 1000

narrationGroupMs == 3000

maxGroupElements == 3

pauseMs == 500

baseMsPerElement == 500

unsyncedMs == 1000

defaultDurationMs == 3000

minDurationMs == 1000

frameRate == 30

\* ------------------------------------------------------------ JS helpers

\* a || b on numbers
OrElse(a, b) == IF a = 0 THEN b ELSE a

\* element.groupIds || []
GroupIdsOf(element) == element.groupIds

\* ------------------------------------------------------------- the id

\* An element id is a string that may carry "animateOrder:<n>" and
\* "animateDuration:<n>".  The model keeps the id as a record: uid is the rest of
\* the string (unique per element), and each key holds the regular expression's
\* match: <<>> for no match, <<n>> for the number matched (n in ms for a
\* duration).
extractNumberFromElement(element, key) ==
    LET match == element.id[key]
    IN  IF Len(match) = 0 THEN 0 ELSE OrElse(match[1], 0)

\* the animateDuration override in ticks
DurationOverride(element) == Ms(extractNumberFromElement(element, "animateDuration"))

\* ------------------------------------------------------------- the sort

TimeOf(e) == OrElse(e.created, OrElse(e.versionNonce, 0))

\* a faulty variant of CompareDaiShi: the animateOrder hint is ignored
CompareByTimeOnly(a, b) == TimeOf(a) - TimeOf(b)

\* the comparator of sortElementsByDaiShiOrder
CompareDaiShi(a, b) ==
    LET aOrder == extractNumberFromElement(a, "animateOrder")
        bOrder == extractNumberFromElement(b, "animateOrder")
    IN  IF aOrder = 0 /\ bOrder = 0
        THEN TimeOf(a) - TimeOf(b)
        ELSE aOrder - bOrder

\* Array.prototype.sort is stable: e goes after the last element that does not
\* compare greater than it.
RECURSIVE InsertSorted(_, _)
InsertSorted(sorted, e) ==
    IF sorted = <<>> THEN <<e>>
    ELSE IF CompareDaiShi(sorted[Len(sorted)], e) > 0
         THEN Append(InsertSorted(SubSeq(sorted, 1, Len(sorted) - 1), e), sorted[Len(sorted)])
         ELSE Append(sorted, e)

RECURSIVE sortElementsByDaiShiOrder(_)
sortElementsByDaiShiOrder(es) ==
    IF es = <<>> THEN <<>>
    ELSE InsertSorted(sortElementsByDaiShiOrder(SubSeq(es, 1, Len(es) - 1)), es[Len(es)])

\* ------------------------------------------------------------ the groups

\* createAnimationGroups: a record per first groupId, members in the order met
RECURSIVE createAnimationGroups(_)
createAnimationGroups(es) ==
    IF es = <<>> THEN [g \in {} |-> [elements |-> <<>>, processed |-> FALSE]]
    ELSE LET before  == createAnimationGroups(SubSeq(es, 1, Len(es) - 1))
             element == es[Len(es)]
             groupIds == GroupIdsOf(element)
         IN  IF Len(groupIds) >= 1
             THEN LET groupId == groupIds[1]
                      record  == IF groupId \in DOMAIN before
                                 THEN before[groupId]
                                 ELSE [elements |-> <<>>, processed |-> FALSE]
                  IN  [g \in DOMAIN before \cup {groupId} |->
                          IF g = groupId
                          THEN [record EXCEPT !.elements = Append(@, element)]
                          ELSE before[g]]
             ELSE before

\* const groups = {}: a plain object, so the names every object inherits
\* (constructor, toString, __proto__, ...) are found in it before any group is
\* added; one of them stands for all
InheritedNames == {"constructor"}

\* !groups[groupId] is false for an inherited name, and
\* groups[groupId].elements.push(element) is then a TypeError
createAnimationGroupsThrows(es) ==
    \E i \in 1..Len(es) :
        /\ Len(GroupIdsOf(es[i])) >= 1
        /\ GroupIdsOf(es[i])[1] \in InheritedNames

\* ------------------------------------------------ the descriptor factory

\* a nested fill or pointer descriptor; null in the source when absent
NoPart == [present |-> FALSE, type |-> "none", startMs |-> 0, durationMs |-> 0]

HasFill(element) ==
    element.backgroundColor # "" /\ element.backgroundColor # "transparent"

getElementAnimationType(element) ==
    CASE element.type \in {"line", "arrow"} ->
             IF HasFill(element)
             THEN (IF element.roundness THEN "path-with-fill" ELSE "polygon")
             ELSE (IF element.roundness THEN "path" ELSE "polygon")
      [] element.type \in {"rectangle", "diamond"} -> "polygon"
      [] element.type = "ellipse"  -> "path"
      [] element.type = "text"     -> "text"
      [] element.type = "freedraw" -> "freedraw"
      [] element.type = "image"    -> "image"
      [] OTHER -> "generic"

animatePointer(element, startMs, durationMs) ==
    [present |-> TRUE, type |-> "pointer-motion", startMs |-> startMs, durationMs |-> durationMs]

animateFillPath(element, startMs, durationMs) ==
    IF ~HasFill(element)
    THEN NoPart
    ELSE [present |-> TRUE, type |-> "fill-animation", startMs |-> startMs, durationMs |-> durationMs]

Descriptor(type, element, startMs, durationMs, strokeDuration, fill, pointer) ==
    [type |-> type, element |-> element.id.uid, startMs |-> startMs,
     durationMs |-> durationMs, strokeDuration |-> strokeDuration,
     fillAnimation |-> fill, pointer |-> pointer, groupAnimation |-> FALSE]

animatePath(element, startMs, durationMs) ==
    Descriptor("path-animation", element, startMs, durationMs, durationMs,
               NoPart, animatePointer(element, startMs, durationMs))

\* a faulty variant of animatePolygon: the fill starts with the stroke
animatePolygonFillAtStart(element, startMs, durationMs) ==
    LET strokeDuration == (durationMs * 3) \div 4
        fillDuration   == durationMs \div 4
    IN  Descriptor("polygon-animation", element, startMs, durationMs, strokeDuration,
                   animateFillPath(element, startMs, fillDuration), NoPart)

\* 75% stroke, then 25% fill
animatePolygon(element, startMs, durationMs) ==
    LET strokeDuration == (durationMs * 3) \div 4
        fillDuration   == durationMs \div 4
        fillStartMs    == startMs + strokeDuration
    IN  Descriptor("polygon-animation", element, startMs, durationMs, strokeDuration,
                   animateFillPath(element, fillStartMs, fillDuration), NoPart)

animateText(element, startMs, durationMs) ==
    Descriptor("text-animation", element, startMs, durationMs, durationMs,
               NoPart, animatePointer(element, startMs, durationMs))

animateFreedraw(element, startMs, durationMs) ==
    Descriptor("freedraw-animation", element, startMs, durationMs, durationMs,
               NoPart, animatePointer(element, startMs, durationMs))

animateImage(element, startMs, durationMs) ==
    Descriptor("image-animation", element, startMs, durationMs, durationMs, NoPart, NoPart)

animateGeneric(element, startMs, durationMs) ==
    Descriptor("generic-animation", element, startMs, durationMs, durationMs, NoPart, NoPart)

createElementAnimation(element, startMs, durationMs) ==
    LET animationType  == getElementAnimationType(element)
        customDuration == OrElse(DurationOverride(element), durationMs)
        animation ==
            CASE animationType = "path"     -> animatePath(element, startMs, customDuration)
              [] animationType = "polygon"  -> animatePolygon(element, startMs, customDuration)
              [] animationType = "text"     -> animateText(element, startMs, customDuration)
              [] animationType = "freedraw" -> animateFreedraw(element, startMs, customDuration)
              [] animationType = "image"    -> animateImage(element, startMs, customDuration)
              [] OTHER -> animateGeneric(element, startMs, customDuration)
    IN  [animation EXCEPT !.groupAnimation = Len(GroupIdsOf(element)) > 0]

\* ------------------------------------------------- the allocation pass

\* group.elements.forEach: one descriptor per member, each moving the cursor on
\* by the group's share; the result is <<frames, cursor>>
RECURSIVE AnimateGroupMembers(_, _, _, _)
AnimateGroupMembers(members, frames, cursor, groupDuration) ==
    IF members = <<>> THEN <<frames, cursor>>
    ELSE AnimateGroupMembers(Tail(members),
                             Append(frames, createElementAnimation(Head(members), cursor, groupDuration)),
                             cursor + groupDuration,
                             groupDuration)

\* a faulty variant of GroupShare: the budget is divided by the member count alone
GroupShareNoSettle(group) == Ms(groupDur) \div Len(group.elements)

\* const groupDuration = groupDur / (group.elements.length + 1)
GroupShare(group) == Ms(groupDur) \div (Len(group.elements) + 1)

\* const duration = extractNumberFromElement(element, 'animateDuration') || individualDur
IndividualDuration(element) == OrElse(DurationOverride(element), Ms(individualDur))

\* a faulty variant of GroupsAtStart: the groups of the first call are kept on the animator
GroupsKept(sorted) == IF returned = <<>> THEN createAnimationGroups(sorted) ELSE groups

\* groups is a local of the call, built anew from the sorted elements
GroupsAtStart(sorted) == createAnimationGroups(sorted)

\* a faulty variant of MarkProcessed: the group is left unprocessed
MarkProcessedForgotten(gs, groupId) == gs

\* group.processed = true
MarkProcessed(gs, groupId) == [gs EXCEPT ![groupId].processed = TRUE]

\* generateWithExcalidrawAnimate, up to the loop
CallPending ==
    CASE mode = "direct"   -> Len(returned) < MaxCalls
      [] mode = "pipeline" -> ppc = "generateAnimation" /\ returned = <<>>
      [] OTHER -> active # 0 /\ Len(returned) = calls[active].base

BeginAllocate ==
    /\ pc = "idle"
    /\ CallPending
    /\ ~createAnimationGroupsThrows(sortElementsByDaiShiOrder(elements))
    /\ sortedElements' = sortElementsByDaiShiOrder(elements)
    /\ groups' = GroupsAtStart(sortedElements')
    /\ currentMs' = Ms(leadingMarginMs)
    /\ animatedFrames' = <<>>
    /\ idx' = 1
    /\ pc' = "loop"
    /\ UNCHANGED <<elements, returned, hostVars, pipeVars>>

\* one iteration of sortedElements.forEach
ForEachElement ==
    /\ pc = "loop"
    /\ idx <= Len(sortedElements)
    /\ LET element  == sortedElements[idx]
           duration == IndividualDuration(element)
           groupIds == GroupIdsOf(element)
       IN  IF Len(groupIds) > 0
           THEN LET groupId == groupIds[1]
                    group   == groups[groupId]
                IN  IF groupId \in DOMAIN groups /\ ~group.processed
                    THEN LET groupDuration == GroupShare(group)
                             done == AnimateGroupMembers(group.elements, animatedFrames,
                                                         currentMs, groupDuration)
                         IN  /\ animatedFrames' = done[1]
                             /\ currentMs' = done[2]
                             /\ groups' = MarkProcessed(groups, groupId)
                    ELSE UNCHANGED <<animatedFrames, currentMs, groups>>
           ELSE /\ animatedFrames' = Append(animatedFrames,
                                            createElementAnimation(element, currentMs, duration))
                /\ currentMs' = currentMs + duration
                /\ UNCHANGED groups
    /\ idx' = idx + 1
    /\ UNCHANGED <<elements, pc, sortedElements, returned, hostVars, pipeVars>>

\* const totalDuration = currentMs + 1000
TotalDuration(cursor) == cursor + Ms(finalMarginMs)

\* the value generateWithExcalidrawAnimate returns
AllocationResult ==
    [ok |-> TRUE, duration |-> TotalDuration(currentMs), frames |-> animatedFrames]

\* what the caller sees when createAnimatedSvg's writeFileSync throws
AllocationThrown == [ok |-> FALSE, duration |-> 0, frames |-> <<>>]

\* createAnimationGroups throws after the sort: the catch rethrows, and no
\* groups, cursor or descriptors exist
GroupsThrow ==
    /\ pc = "idle"
    /\ CallPending
    /\ createAnimationGroupsThrows(sortElementsByDaiShiOrder(elements))
    /\ sortedElements' = sortElementsByDaiShiOrder(elements)
    /\ returned' = Append(returned, AllocationThrown)
    /\ pc' = IF mode = "direct" THEN "threw" ELSE "idle"
    /\ UNCHANGED <<elements, groups, idx, currentMs, animatedFrames, hostVars, pipeVars>>

ReturnAllocation ==
    /\ pc = "loop"
    /\ idx > Len(sortedElements)
    /\ returned' = Append(returned, AllocationResult)
    /\ pc' = "idle"
    /\ UNCHANGED <<elements, allocVars, hostVars, pipeVars>>

\* In a script the exception ends the run; in the pipeline generateAnimation
\* catches it and falls back to generateFrameByFrame.
ThrowAllocation ==
    /\ pc = "loop"
    /\ idx > Len(sortedElements)
    /\ returned' = Append(returned, AllocationThrown)
    /\ pc' = IF mode = "direct" THEN "threw" ELSE "idle"
    /\ UNCHANGED <<elements, allocVars, hostVars, pipeVars>>

\* ------------------------------------------------------ JS numbers (speed)

\* A speed is a quotient of two times, so the model keeps it as a fraction, with
\* the two values a division by zero gives.
Fin(n, d) == [kind |-> "fin", num |-> n, den |-> d]

NaN == [kind |-> "nan", num |-> 0, den |-> 1]

Infinity == [kind |-> "inf", num |-> 1, den |-> 1]

RECURSIVE Gcd(_, _)
Gcd(a, b) == IF b = 0 THEN a ELSE Gcd(b, a % b)

\* a / b for a, b >= 0, in lowest terms
JsDivide(a, b) ==
    IF b # 0 THEN Fin(a \div Gcd(a, b), b \div Gcd(a, b))
    ELSE IF a = 0 THEN NaN ELSE Infinity

\* x < y for numbers that are not NaN
JsLess(x, y) ==
    CASE x.kind = "inf" -> FALSE
      [] y.kind = "inf" -> TRUE
      [] OTHER -> x.num * y.den < y.num * x.den

MathMin(x, y) ==
    IF x.kind = "nan" \/ y.kind = "nan" THEN NaN ELSE IF JsLess(y, x) THEN y ELSE x

MathMax(x, y) ==
    IF x.kind = "nan" \/ y.kind = "nan" THEN NaN ELSE IF JsLess(x, y) THEN y ELSE x

\* ---------------------------------------------------------- the narrator

RECURSIVE InsertByTime(_, _)
InsertByTime(sorted, e) ==
    IF sorted = <<>> THEN <<e>>
    ELSE IF TimeOf(sorted[Len(sorted)]) - TimeOf(e) > 0
         THEN Append(InsertByTime(SubSeq(sorted, 1, Len(sorted) - 1), e), sorted[Len(sorted)])
         ELSE Append(sorted, e)

\* [...elements].sort by created || versionNonce || 0 (stable)
RECURSIVE SortByTime(_)
SortByTime(es) ==
    IF es = <<>> THEN <<>>
    ELSE InsertByTime(SortByTime(SubSeq(es, 1, Len(es) - 1)), es[Len(es)])

\* a faulty variant of shouldStartNewGroup: a group may grow without limit
shouldStartNewGroupNoLimit(element, currentGroup) ==
    IF currentGroup = <<>> THEN TRUE
    ELSE IF element.type # currentGroup[1].type THEN TRUE
    ELSE IF element.type = "text" THEN TRUE
    ELSE FALSE

\* currentGroup is <<>> for null, <<group>> otherwise
shouldStartNewGroup(element, currentGroup) ==
    IF currentGroup = <<>> THEN TRUE
    ELSE IF element.type # currentGroup[1].type THEN TRUE
    ELSE IF Len(currentGroup[1].elements) >= maxGroupElements THEN TRUE
    ELSE IF element.type = "text" THEN TRUE
    ELSE FALSE

\* the forEach of groupElements over sorted[i..]; st is the loop's state
RECURSIVE GroupLoop(_, _, _)
GroupLoop(sorted, i, st) ==
    IF i > Len(sorted) THEN st
    ELSE LET element == sorted[i]
             cur     == st.currentGroup
         IN  IF shouldStartNewGroup(element, cur) \/ cur = <<>>
             THEN LET closed == IF cur # <<>>
                                THEN Append(st.groups,
                                            [cur[1] EXCEPT !.endTime = st.groupStartTime + Ms(narrationGroupMs)])
                                ELSE st.groups
                      start  == IF cur # <<>>
                                THEN st.groupStartTime + Ms(narrationGroupMs)
                                ELSE st.groupStartTime
                  IN  GroupLoop(sorted, i + 1,
                                [groups |-> closed,
                                 groupStartTime |-> start,
                                 currentGroup |-> <<[id |-> Len(closed), elements |-> <<element>>,
                                                     type |-> element.type, startTime |-> start,
                                                     endTime |-> 0 - 1]>>])
             ELSE GroupLoop(sorted, i + 1,
                            [st EXCEPT !.currentGroup[1].elements = Append(@, element)])

groupElements(es) ==
    LET st == GroupLoop(SortByTime(es), 1,
                        [groups |-> <<>>, groupStartTime |-> 0, currentGroup |-> <<>>])
    IN  IF st.currentGroup # <<>>
        THEN Append(st.groups,
                    [st.currentGroup[1] EXCEPT !.endTime = st.groupStartTime + Ms(narrationGroupMs)])
        ELSE st.groups

\* createAudioTimeline: audioDurations[i] is the measured duration of the audio
\* of script segment i, whose elements are scriptGroups[i].elements
RECURSIVE TimelineLoop(_, _, _, _, _)
TimelineLoop(audioDurations, scriptGroups, i, segments, currentTime) ==
    IF i > Len(audioDurations)
    THEN [present |-> TRUE, segments |-> segments, totalDuration |-> currentTime]
    ELSE TimelineLoop(audioDurations, scriptGroups, i + 1,
                      Append(segments,
                             [id |-> scriptGroups[i].id,
                              startTime |-> currentTime,
                              endTime |-> currentTime + audioDurations[i],
                              duration |-> audioDurations[i],
                              elements |-> scriptGroups[i].elements]),
                      currentTime + audioDurations[i] + Ms(pauseMs))

createAudioTimeline(audioDurations, scriptGroups) ==
    TimelineLoop(audioDurations, scriptGroups, 1, <<>>, 0)

NoNarration == [present |-> FALSE, segments |-> <<>>, totalDuration |-> 0]

\* ----------------------------------------------------------- the pipeline

\* a faulty variant of SegmentTimestamps: the slot index is taken one-based
RECURSIVE SegmentTimestampsOneBased(_, _)
SegmentTimestampsOneBased(segment, index) ==
    IF index >= Len(segment.elements) THEN <<>>
    ELSE LET share            == segment.duration \div Len(segment.elements)
             elementStartTime == segment.startTime + share * (index + 1)
         IN  <<[id |-> segment.elements[index + 1].id.uid,
                created |-> elementStartTime,
                updated |-> elementStartTime + share]>>
             \o SegmentTimestampsOneBased(segment, index + 1)

RECURSIVE SegmentTimestamps(_, _)
\* the inner forEach of createSynchronizedTimestamps, for indices index.. (0-based)
SegmentTimestamps(segment, index) ==
    IF index >= Len(segment.elements) THEN <<>>
    ELSE LET share            == segment.duration \div Len(segment.elements)
             elementStartTime == segment.startTime + share * index
         IN  <<[id |-> segment.elements[index + 1].id.uid,
                created |-> elementStartTime,
                updated |-> elementStartTime + share]>>
             \o SegmentTimestamps(segment, index + 1)

RECURSIVE TimelineTimestamps(_, _)
TimelineTimestamps(segments, i) ==
    IF i > Len(segments) THEN <<>>
    ELSE SegmentTimestamps(segments[i], 0) \o TimelineTimestamps(segments, i + 1)

\* "Add any remaining elements not in timeline"
RECURSIVE AddRemaining(_, _, _, _)
AddRemaining(es, i, timestamps, totalDuration) ==
    IF i > Len(es) THEN timestamps
    ELSE IF \E k \in 1..Len(timestamps) : timestamps[k].id = es[i].id.uid
         THEN AddRemaining(es, i + 1, timestamps, totalDuration)
         ELSE AddRemaining(es, i + 1,
                           Append(timestamps, [id |-> es[i].id.uid,
                                               created |-> totalDuration,
                                               updated |-> totalDuration + Ms(unsyncedMs)]),
                           totalDuration)

createSynchronizedTimestamps(es, timeline) ==
    AddRemaining(es, 1, TimelineTimestamps(timeline.segments, 1), timeline.totalDuration)

createDefaultTimestamps(es) ==
    [i \in 1..Len(es) |-> [id |-> es[i].id.uid,
                           created |-> (i - 1) * Ms(baseMsPerElement),
                           updated |-> i * Ms(baseMsPerElement)]]

calculateAnimationSpeed(elementCount, narrationDuration) ==
    LET baseAnimationTime == elementCount * Ms(baseMsPerElement)
        s == JsDivide(baseAnimationTime, narrationDuration)
    IN  MathMax(Fin(1, 2), MathMin(Fin(2, 1), s))

SetMin(S) == CHOOSE x \in S : \A y \in S : x <= y

SetMax(S) == CHOOSE x \in S : \A y \in S : x >= y

calculateDuration(timestamps) ==
    IF Len(timestamps) = 0 THEN Ms(defaultDurationMs)
    ELSE LET firstTime == SetMin({OrElse(timestamps[k].created, 0) : k \in 1..Len(timestamps)})
             lastTime  == SetMax({OrElse(timestamps[k].updated, OrElse(timestamps[k].created, 0)) :
                                    k \in 1..Len(timestamps)})
         IN  SetMax({lastTime - firstTime, Ms(minDurationMs)})

\* Math.ceil(a / b) for b > 0
CeilDiv(a, b) == IF a % b = 0 THEN a \div b ELSE (a \div b) + 1

\* the number of frames the loop of generateFrameByFrame renders:
\* Math.ceil((animationDuration / 1000) * frameRate / speed), none when that is NaN
totalFrames(animationDuration, sp) ==
    IF sp.kind = "nan" THEN 0
    ELSE IF sp.kind = "inf" \/ sp.num = 0 THEN 0
    ELSE CeilDiv((animationDuration \div Gcd(animationDuration, Ms(1000))) * frameRate * sp.den,
                 (Ms(1000) \div Gcd(animationDuration, Ms(1000))) * sp.num)

NoAnimation == [type |-> "none", duration |-> 0, frames |-> 0]

\* the measured audio durations of the segments, in ms
AudioDurationsMs == {2000, 4000}

\* narrator.generateNarration: script groups, one audio per group, the timeline
GenerateNarration ==
    /\ mode = "pipeline"
    /\ ppc = "start"
    /\ LET scriptGroups == groupElements(elements)
       IN  \E ms \in [1..Len(scriptGroups) -> AudioDurationsMs] :
              narration' = createAudioTimeline([i \in 1..Len(scriptGroups) |-> Ms(ms[i])],
                                               scriptGroups)
    /\ ppc' = "narrated"
    /\ UNCHANGED <<elements, pc, allocVars, returned, hostVars, syncedTimestamps, speed, finalAnimation>>

\* config.voiceEnabled is false: narration stays null
VoiceDisabled ==
    /\ mode = "pipeline"
    /\ ppc = "start"
    /\ narration' = NoNarration
    /\ ppc' = "narrated"
    /\ UNCHANGED <<elements, pc, allocVars, returned, hostVars, syncedTimestamps, speed, finalAnimation>>

\* generateAudioSegment rejects: processWithVoice rethrows
NarrationFails ==
    /\ mode = "pipeline"
    /\ ppc = "start"
    /\ Len(elements) > 0
    /\ ppc' = "failed"
    /\ UNCHANGED <<elements, pc, allocVars, returned, hostVars, narration, syncedTimestamps, speed, finalAnimation>>

\* generateSynchronizedAnimation up to its call of animator.generateAnimation
BeginSynchronized ==
    /\ mode = "pipeline"
    /\ ppc = "narrated"
    /\ IF ~narration.present
       THEN /\ syncedTimestamps' = createDefaultTimestamps(elements)
            /\ speed' = speed
       ELSE /\ syncedTimestamps' = createSynchronizedTimestamps(elements, narration)
            /\ speed' = calculateAnimationSpeed(Len(elements), narration.totalDuration)
    /\ ppc' = "generateAnimation"
    /\ UNCHANGED <<elements, pc, allocVars, returned, hostVars, narration, finalAnimation>>

\* generateAnimation returns what generateWithExcalidrawAnimate returned
ReturnSynchronized ==
    /\ mode = "pipeline"
    /\ ppc = "generateAnimation"
    /\ pc = "idle"
    /\ returned # <<>>
    /\ returned[1].ok
    /\ finalAnimation' = [type |-> "dai-shi-progressive-animation",
                     duration |-> returned[1].duration,
                     frames |-> Len(returned[1].frames)]
    /\ ppc' = "done"
    /\ UNCHANGED <<elements, pc, allocVars, returned, hostVars, narration, syncedTimestamps, speed>>

\* generateAnimation caught the exception: generateFrameByFrame(timestamps)
FallbackFrameByFrame ==
    /\ mode = "pipeline"
    /\ ppc = "generateAnimation"
    /\ pc = "idle"
    /\ returned # <<>>
    /\ ~returned[1].ok
    /\ LET animationDuration == calculateDuration(syncedTimestamps)
       IN  finalAnimation' = [type |-> "frame-by-frame",
                         duration |-> animationDuration,
                         frames |-> totalFrames(animationDuration, speed)]
    /\ ppc' = "done"
    /\ UNCHANGED <<elements, pc, allocVars, returned, hostVars, narration, syncedTimestamps, speed>>

\* ------------------------------------- calls sharing one pipeline object

\* JavaScript runs one call at a time up to its next await: the thread is free
\* when no allocation is under way and the call that ran last has reached the
\* await of createAnimatedSvg
ThreadFree ==
    /\ pc = "idle"
    /\ active # 0 => Len(returned) > calls[active].base

\* generateSynchronizedAnimation from its entry to the call of
\* generateWithExcalidrawAnimate; the allocation pass follows in the same turn
StartCall(i) ==
    /\ mode = "calls"
    /\ calls[i].stage = "new"
    /\ ThreadFree
    /\ LET n == calls[i].narration
       IN  IF ~n.present
           THEN /\ calls' = [calls EXCEPT ![i].stage = "running",
                                          ![i].timestamps = createDefaultTimestamps(elements),
                                          ![i].base = Len(returned)]
                /\ speed' = speed
           ELSE /\ calls' = [calls EXCEPT ![i].stage = "running",
                                          ![i].timestamps = createSynchronizedTimestamps(elements, n),
                                          ![i].base = Len(returned)]
                /\ speed' = calculateAnimationSpeed(Len(elements), n.totalDuration)
    /\ active' = i
    /\ UNCHANGED <<elements, pc, allocVars, returned, mode, ppc, narration, syncedTimestamps,
                   finalAnimation, toolVars>>

\* The call resumes after its await.  When the pass returned a plan it is handed
\* back; when createAnimatedSvg threw, generateAnimation runs generateFrameByFrame
\* with the call's timestamps and with this.config.speed as it is now.  (The
\* frame loop reads the speed again at every frame; the model takes the read
\* that fixes the frame count.)  "this.animator = originalAnimator" assigns the
\* same object back: the speed stays.
ResumeCall(i) ==
    /\ mode = "calls"
    /\ calls[i].stage = "running"
    /\ ThreadFree
    /\ Len(returned) > calls[i].base
    /\ LET r == returned[calls[i].base + 1]
           animationDuration == calculateDuration(calls[i].timestamps)
       IN  calls' = [calls EXCEPT
              ![i].stage = "done",
              ![i].result = IF r.ok
                            THEN [type |-> "dai-shi-progressive-animation",
                                  duration |-> r.duration,
                                  frames |-> Len(r.frames)]
                            ELSE [type |-> "frame-by-frame",
                                  duration |-> animationDuration,
                                  frames |-> totalFrames(animationDuration, speed)]]
    /\ UNCHANGED <<elements, pc, allocVars, returned, mode, active, pipeVars, toolVars>>

\* ------------------------------------------------------------ the parser

\* An element of a document on disk: created and updated are <<>> when the
\* field is missing and <<n>> when it holds n; isNull marks a null entry of
\* the elements array.
FileElement(uid, t) ==
    [id |-> uid, created |-> t.created, updated |-> t.updated, isNull |-> FALSE]

NullEntry == [id |-> 0, created |-> <<>>, updated |-> <<>>, isNull |-> TRUE]

\* a.created || 0
CreatedOrZero(el) == IF el.created = <<>> THEN 0 ELSE el.created[1]

\* a faulty variant of CompareCreated: latest first
CompareCreatedDescending(a, b) == CreatedOrZero(b) - CreatedOrZero(a)

\* (a, b) => (a.created || 0) - (b.created || 0)
CompareCreated(a, b) == CreatedOrZero(a) - CreatedOrZero(b)

\* this.elements.sort(...): Array.prototype.sort is stable
RECURSIVE InsertByCreated(_, _)
InsertByCreated(sorted, el) ==
    IF sorted = <<>> THEN <<el>>
    ELSE IF CompareCreated(sorted[Len(sorted)], el) > 0
         THEN Append(InsertByCreated(SubSeq(sorted, 1, Len(sorted) - 1), el), sorted[Len(sorted)])
         ELSE Append(sorted, el)

RECURSIVE SortByCreated(_)
SortByCreated(es) ==
    IF es = <<>> THEN <<>>
    ELSE InsertByCreated(SortByCreated(SubSeq(es, 1, Len(es) - 1)), es[Len(es)])

\* el.updated || el.created
UpdatedOrCreated(el) ==
    IF el.updated = <<>> \/ el.updated[1] = 0 THEN el.created ELSE el.updated

\* this.elements.map(el => ({id, type, created, updated}))
ExtractTimestamps(es) ==
    [i \in 1..Len(es) |-> [id |-> es[i].id, created |-> es[i].created,
                           updated |-> UpdatedOrCreated(es[i])]]

\* new ExcalidrawParser()
NewParser == [elements |-> <<>>, metadata |-> [version |-> 0]]

NoOutcome == [status |-> "none", message |-> "", elements |-> <<>>, timestamps |-> <<>>]

Rejected(message) ==
    [status |-> "rejected", message |-> message, elements |-> <<>>, timestamps |-> <<>>]

\* !filePath
PathFalsy(input) == input.path \in {"undefined", "empty", "zero"}

\* typeof filePath !== 'string'
PathNotString(input) == input.path \in {"undefined", "zero", "number"}

\* a faulty variant of ValidatePath: the type is checked before the presence
ValidatePathTypeFirst(input) ==
    IF PathNotString(input) THEN "File path must be a string"
    ELSE IF PathFalsy(input) THEN "File path is required"
    ELSE IF input.file.kind = "absent" THEN "File not found"
    ELSE ""

\* the input validation of parseFile: the message thrown, "" when none is
ValidatePath(input) ==
    IF PathFalsy(input) THEN "File path is required"
    ELSE IF PathNotString(input) THEN "File path must be a string"
    ELSE IF input.file.kind = "absent" THEN "File not found"
    ELSE ""

\* parseFile(filePath) on the parser in state before: the parser afterwards and
\* the promise's outcome.  The variable tail of a message (a path, a type, the
\* text of an inner error) is left out.
parseFile(input, before) ==
    LET file == input.file
        invalid == ValidatePath(input)
    IN  CASE invalid # "" ->
                 [parser |-> before, outcome |-> Rejected(invalid)]
          [] invalid = "" /\ file.kind = "unreadable" ->
                 [parser |-> before, outcome |-> Rejected("Permission denied reading file")]
          [] invalid = "" /\ file.kind = "garbage" ->
                 [parser |-> before, outcome |-> Rejected("Invalid JSON in file")]
          [] invalid = "" /\ file.kind = "null" ->
                 [parser |-> before,
                  outcome |-> Rejected("Invalid Excalidraw file: expected JSON object")]
          [] invalid = "" /\ file.kind = "noElements" ->
                 [parser |-> before,
                  outcome |-> Rejected("Invalid Excalidraw file: missing or invalid \"elements\" array")]
          [] invalid = "" /\ file.kind = "nullEntry" ->
                 [parser |-> [elements |-> file.elements, metadata |-> [version |-> file.version]],
                  outcome |-> Rejected("Failed to parse Excalidraw file")]
          [] OTHER ->
                 LET sorted == SortByCreated(file.elements)
                 IN  [parser |-> [elements |-> sorted, metadata |-> [version |-> file.version]],
                      outcome |-> [status |-> "resolved", message |-> "",
                                   elements |-> sorted,
                                   timestamps |-> ExtractTimestamps(sorted)]]

\* the arguments parseFile is called with: no path, "", 0, 123, or the path of
\* a file
File(kind, es) == [kind |-> kind, elements |-> es, version |-> IF es = <<>> THEN 0 ELSE 2]

\* an element without timestamps, one created at 1000 and updated at 2500, one
\* created at 2000 and never updated
FileTemplates ==
    { [created |-> <<>>, updated |-> <<>>],
      [created |-> <<1000>>, updated |-> <<2500>>],
      [created |-> <<2000>>, updated |-> <<>>] }

Documents(maxLen) ==
    UNION { { [kind |-> "document", version |-> 2,
               elements |-> [i \in 1..n |-> FileElement(i, shape[i])]] :
                shape \in [1..n -> FileTemplates] } : n \in 0..maxLen }

ParseInputs ==
    { [path |-> p, file |-> File("absent", <<>>)] : p \in {"undefined", "empty", "zero", "number"} }
    \cup { [path |-> "string", file |-> File(k, <<>>)] :
             k \in {"absent", "unreadable", "garbage", "null", "noElements"} }
    \cup { [path |-> "string", file |-> File("nullEntry", <<NullEntry>>)] }
    \cup { [path |-> "string", file |-> d] : d \in Documents(MaxElems) }

NoParse == [input |-> [path |-> "undefined", file |-> File("absent", <<>>)],
            before |-> NewParser, outcome |-> NoOutcome]

\* one call of parser.parseFile
ParseFile ==
    /\ mode = "parse"
    /\ \E input \in ParseInputs :
          LET done == parseFile(input, parser)
          IN  /\ parser' = done.parser
              /\ parsed' = [input |-> input, before |-> parser, outcome |-> done.outcome]
    /\ UNCHANGED <<elements, pc, allocVars, returned, mode, calls, active, pipeVars,
                   exporter, disk, script>>

\* ---------------------------------------------------------- the exporter

\* The animationData argument: missing, a string, an object without outputDir
\* ({type: 'test', frames: [], duration: 1000}), what generateFrameByFrame
\* returns, a demo plan (type 'dai-shi-progressive-animation' without an SVG,
\* or 'excalidraw-animate-proof'), and a progressive plan whose svgPath exists
\* or does not.  The outputFileName argument: left out (the default applies), a
\* string, or the number 123.
ExportInputs ==
    [data : {"undefined", "string", "plain", "frames", "demo", "progressive", "progressiveNoSvg"},
     fileName : {"default", "string", "number"}]

\* the synchronous part of exportVideo throws: animationData.type on undefined,
\* path.join on a non-string file name or on the missing outputDir, or the
\* 'Animated SVG file not found' of createProgressiveAnimationVideo
SetupThrows(input) ==
    \/ input.data \in {"undefined", "string", "plain", "progressiveNoSvg"}
    \/ input.fileName = "number"

NewExporter ==
    [pc |-> "idle", input |-> [data |-> "undefined", fileName |-> "default"],
     started |-> FALSE, status |-> "none", message |-> ""]

\* exportVideo up to ffmpeg's run(); every exception is rethrown by the catch
\* as 'Video export setup failed: ...'
ExportVideo ==
    /\ mode = "export"
    /\ exporter.pc # "encoding"
    /\ \E input \in ExportInputs :
          exporter' = IF SetupThrows(input)
                      THEN [pc |-> "settled", input |-> input, started |-> FALSE,
                            status |-> "rejected", message |-> "Video export setup failed"]
                      ELSE [pc |-> "encoding", input |-> input, started |-> TRUE,
                            status |-> "pending", message |-> ""]
    /\ UNCHANGED <<elements, pc, allocVars, returned, mode, calls, active, pipeVars,
                   parser, parsed, disk, script>>

\* ffmpeg's 'end' event; exportVideo itself checks that the output file exists
FfmpegEnd ==
    /\ mode = "export"
    /\ exporter.pc = "encoding"
    /\ \E outputExists \in BOOLEAN :
          exporter' = IF exporter.input.data = "frames" /\ ~outputExists
                      THEN [exporter EXCEPT !.pc = "settled", !.status = "rejected",
                                            !.message = "Video file was not created"]
                      ELSE [exporter EXCEPT !.pc = "settled", !.status = "resolved"]
    /\ UNCHANGED <<elements, pc, allocVars, returned, mode, calls, active, pipeVars,
                   parser, parsed, disk, script>>

\* ffmpeg's 'error' event.  A demo's rejection passes the catch of exportVideo;
\* a progressive plan falls back to renderSvgFrameByFrame, which may succeed.
FfmpegError ==
    /\ mode = "export"
    /\ exporter.pc = "encoding"
    /\ \E fallbackWorks \in BOOLEAN :
          exporter' =
            CASE exporter.input.data = "frames" ->
                     [exporter EXCEPT !.pc = "settled", !.status = "rejected",
                                      !.message = "Video export failed"]
              [] exporter.input.data = "progressive" /\ fallbackWorks ->
                     [exporter EXCEPT !.pc = "settled", !.status = "resolved"]
              [] OTHER ->
                     [exporter EXCEPT !.pc = "settled", !.status = "rejected",
                                      !.message = "Video export setup failed"]
    /\ UNCHANGED <<elements, pc, allocVars, returned, mode, calls, active, pipeVars,
                   parser, parsed, disk, script>>

\* ------------------------------------------------- the YouTube authorization

EmptyDisk == [credentials |-> "absent", token |-> "absent"]

Disks == [credentials : {"absent", "valid"}, token : {"absent", "stored"}]

\* YouTubeUploader.initialize on the files as they are: loadCredentials throws
\* without credentials.json; with no token.json this.authorize() rejects with
\* 'Manual authorization required'
initialize(d) ==
    IF d.credentials = "absent" THEN "credentials missing"
    ELSE IF d.token = "stored" THEN "ok"
    ELSE "authorization required"

NoScript ==
    [pc |-> "idle", code |-> "none", exit |-> 0, tokenAtStart |-> "absent", later |-> "none"]

\* node src/upload/authorize.js [code]
RunAuthorize ==
    /\ mode = "authorize"
    /\ script.pc = "idle"
    /\ \E code \in {"none", "valid", "invalid"} :
          script' = IF code = "none"
                    THEN [script EXCEPT !.pc = "exited", !.exit = 1, !.tokenAtStart = disk.token]
                    ELSE [script EXCEPT !.pc = "initialize", !.code = code,
                                        !.tokenAtStart = disk.token]
    /\ UNCHANGED <<elements, pc, allocVars, returned, mode, calls, active, pipeVars,
                   parser, parsed, exporter, disk>>

\* await uploader.initialize(): a failure goes to the script's catch, exit 1
ScriptInitialize ==
    /\ mode = "authorize"
    /\ script.pc = "initialize"
    /\ script' = IF initialize(disk) = "ok"
                 THEN [script EXCEPT !.pc = "handleAuthCode"]
                 ELSE [script EXCEPT !.pc = "exited", !.exit = 1]
    /\ UNCHANGED <<elements, pc, allocVars, returned, mode, calls, active, pipeVars,
                   parser, parsed, exporter, disk>>

\* await uploader.handleAuthCode(code): getToken, setCredentials, saveToken.
\* saveToken logs a failed write and returns, so the script still ends well.
HandleAuthCode ==
    /\ mode = "authorize"
    /\ script.pc = "handleAuthCode"
    /\ IF script.code = "valid"
       THEN /\ \E written \in BOOLEAN :
                 disk' = IF written THEN [disk EXCEPT !.token = "stored"] ELSE disk
            /\ script' = [script EXCEPT !.pc = "exited", !.exit = 0]
       ELSE /\ disk' = disk
            /\ script' = [script EXCEPT !.pc = "exited", !.exit = 1]
    /\ UNCHANGED <<elements, pc, allocVars, returned, mode, calls, active, pipeVars,
                   parser, parsed, exporter>>

\* a later run of the pipeline: new YouTubeUploader().initialize()
LaterInitialize ==
    /\ mode = "authorize"
    /\ script.pc = "exited"
    /\ script.later = "none"
    /\ script' = [script EXCEPT !.later = initialize(disk)]
    /\ UNCHANGED <<elements, pc, allocVars, returned, mode, calls, active, pipeVars,
                   parser, parsed, exporter, disk>>

\* ------------------------------------------------------------ the inputs

NoMatch == <<>>

\* created is the element's stamp: the input is in creation order, or in
\* reverse creation order
Element(uid, t, stamp) ==
    [id |-> [uid |-> uid, animateOrder |-> NoMatch, animateDuration |-> t.animateDuration],
     type |-> t.type, groupIds |-> t.groupIds, backgroundColor |-> t.backgroundColor,
     roundness |-> t.roundness, created |-> stamp, versionNonce |-> 0]

ElementLists(Templates, maxLen) ==
    UNION { { [i \in 1..n |-> Element(i, shape[i], IF reversed THEN n + 1 - i ELSE i)] :
                shape \in [1..n -> Templates], reversed \in BOOLEAN } : n \in 0..maxLen }

\* the elements the allocation is run on: rectangles alone or in one of two
\* groups, an ellipse in a group, a text alone, and rectangles (alone or in a
\* group) whose id carries a negative or a long animateDuration
TimingTemplates ==
    { t \in [type : {"rectangle", "ellipse", "text"},
             groupIds : {<<>>, <<"g1">>, <<"g2">>},
             animateDuration : {NoMatch, <<0 - 700>>, <<6000>>},
             backgroundColor : {""},
             roundness : {FALSE}] :
        /\ t.type = "ellipse" => t.groupIds = <<"g1">>
        /\ t.type = "text" => t.groupIds = <<>>
        /\ t.animateDuration # NoMatch => (t.type = "rectangle" /\ t.groupIds # <<"g2">>) }

\* the documents the pipeline is run on
NarratedTemplates ==
    [type : {"rectangle", "ellipse", "text"},
     groupIds : {<<>>, <<"g1">>},
     animateDuration : {NoMatch},
     backgroundColor : {""},
     roundness : {FALSE}]

\* the documents the narrator groups: ungrouped shapes of two kinds and texts
ScriptTemplates ==
    [type : {"rectangle", "ellipse", "text"},
     groupIds : {<<>>},
     animateDuration : {NoMatch},
     backgroundColor : {""},
     roundness : {FALSE}]

\* ungrouped shapes of every kind, with and without fill, roundness and
\* animateDuration
ShapeTemplates ==
    [type : {"rectangle", "diamond", "line", "arrow", "ellipse", "text",
             "freedraw", "image", "frame"},
     groupIds : {<<>>},
     animateDuration : {NoMatch, <<6000>>},
     backgroundColor : {"", "transparent", "#ffc9c9"},
     roundness : BOOLEAN]

\* rectangles with no, one or two group memberships, one in a group named like
\* an inherited property, and ungrouped ones whose id carries an
\* animateDuration of 0 or 800
GroupTemplates ==
    { t \in [type : {"rectangle"},
             groupIds : {<<>>, <<"g1">>, <<"g1", "g2">>, <<"g2", "g1">>, <<"constructor">>},
             animateDuration : {NoMatch, <<0>>, <<800>>},
             backgroundColor : {""},
             roundness : {FALSE}] :
        t.animateDuration # NoMatch => t.groupIds = <<>> }

\* an ungrouped rectangle whose id may carry an animateOrder hint, with the
\* created and versionNonce fields the document gives it
OrderedElement(uid, t) ==
    [id |-> [uid |-> uid, animateOrder |-> t.animateOrder, animateDuration |-> NoMatch],
     type |-> "rectangle", groupIds |-> <<>>, backgroundColor |-> "",
     roundness |-> FALSE, created |-> t.created, versionNonce |-> t.versionNonce]

\* hints absent, negative and positive; created present, or absent (0) with and
\* without a versionNonce to fall back to
OrderTemplates ==
    { t \in [animateOrder : {NoMatch, <<0 - 1>>, <<2>>},
             created : {0, 20},
             versionNonce : {0, 10}] :
        t.created # 0 => t.versionNonce = 0 }

OrderLists(maxLen) ==
    UNION { { [i \in 1..n |-> OrderedElement(i, shape[i])] : shape \in [1..n -> OrderTemplates] } :
            n \in 0..maxLen }

\* the documents concurrent calls are made on: ungrouped rectangles
CallTemplates ==
    [type : {"rectangle"},
     groupIds : {<<>>},
     animateDuration : {NoMatch},
     backgroundColor : {""},
     roundness : {FALSE}]

\* the narrations a caller may hold for a document: none, or the narrator's
\* timeline for the first m elements (made before the others were drawn)
NarrationsFor(es) ==
    {NoNarration} \cup
    UNION { LET scriptGroups == groupElements(SubSeq(es, 1, m))
            IN  { createAudioTimeline([i \in 1..Len(scriptGroups) |-> Ms(ms[i])], scriptGroups) :
                    ms \in [1..Len(scriptGroups) -> AudioDurationsMs] } :
            m \in 0..Len(es) }

Callers == {1, 2}

NewCall(n) ==
    [stage |-> "new", narration |-> n, timestamps |-> <<>>, base |-> 0, result |-> NoAnimation]

InitAnimator ==
    /\ pc = "idle"
    /\ sortedElements = <<>>
    /\ groups = createAnimationGroups(<<>>)
    /\ idx = 1
    /\ currentMs = 0
    /\ animatedFrames = <<>>
    /\ returned = <<>>
    /\ narration = NoNarration
    /\ syncedTimestamps = <<>>
    /\ speed = Fin(1, 1)
    /\ finalAnimation = NoAnimation
    /\ active = 0
    /\ parser = NewParser
    /\ parsed = NoParse
    /\ exporter = NewExporter
    /\ script = NoScript

Init ==
    /\ elements \in ElementLists(TimingTemplates, MaxElems)
    /\ mode = "direct"
    /\ ppc = "none"
    /\ calls = <<>>
    /\ disk = EmptyDisk
    /\ InitAnimator

InitGroups ==
    /\ elements \in ElementLists(GroupTemplates, MaxElems)
    /\ mode = "direct"
    /\ ppc = "none"
    /\ calls = <<>>
    /\ disk = EmptyDisk
    /\ InitAnimator

InitScript ==
    /\ elements \in ElementLists(ScriptTemplates, MaxScript)
    /\ mode = "pipeline"
    /\ ppc = "start"
    /\ calls = <<>>
    /\ disk = EmptyDisk
    /\ InitAnimator

InitShape ==
    /\ elements \in ElementLists(ShapeTemplates, MaxShapes)
    /\ mode = "direct"
    /\ ppc = "none"
    /\ calls = <<>>
    /\ disk = EmptyDisk
    /\ InitAnimator

InitSync ==
    /\ elements \in ElementLists(NarratedTemplates, MaxElems)
    /\ mode = "pipeline"
    /\ ppc = "start"
    /\ calls = <<>>
    /\ disk = EmptyDisk
    /\ InitAnimator

InitOrder ==
    /\ elements \in OrderLists(MaxElems)
    /\ mode = "direct"
    /\ ppc = "none"
    /\ calls = <<>>
    /\ disk = EmptyDisk
    /\ InitAnimator

InitCalls ==
    /\ elements \in ElementLists(CallTemplates, MaxElems)
    /\ mode = "calls"
    /\ ppc = "none"
    /\ calls \in [Callers -> {NewCall(n) : n \in NarrationsFor(elements)}]
    /\ disk = EmptyDisk
    /\ InitAnimator

\* one of the tools is run: the parser, the exporter, or the authorize script
\* on a machine that holds credentials.json and token.json or not
InitTools ==
    /\ elements = <<>>
    /\ mode \in {"parse", "export", "authorize"}
    /\ ppc = "none"
    /\ calls = <<>>
    /\ disk \in IF mode = "authorize" THEN Disks ELSE {EmptyDisk}
    /\ InitAnimator

Allocate ==
    \/ BeginAllocate
    \/ ForEachElement
    \/ ReturnAllocation
    \/ ThrowAllocation

Next == Allocate

NextGroups ==
    \/ Allocate
    \/ GroupsThrow

NextSync ==
    \/ GenerateNarration
    \/ VoiceDisabled
    \/ NarrationFails
    \/ BeginSynchronized
    \/ Allocate
    \/ ReturnSynchronized
    \/ FallbackFrameByFrame

Spec == Init /\ [][Next]_vars

SpecGroups == InitGroups /\ [][NextGroups]_vars

SpecShape == InitShape /\ [][Next]_vars

SpecSync == InitSync /\ [][NextSync]_vars

SpecScript == InitScript /\ [][NextSync]_vars

SpecOrder == InitOrder /\ [][Next]_vars

NextCalls ==
    \/ \E i \in Callers : StartCall(i)
    \/ Allocate
    \/ \E i \in Callers : ResumeCall(i)

SpecCalls == InitCalls /\ [][NextCalls]_vars

NextTools ==
    \/ ParseFile
    \/ ExportVideo
    \/ FfmpegEnd
    \/ FfmpegError
    \/ RunAuthorize
    \/ ScriptInitialize
    \/ HandleAuthCode
    \/ LaterInitialize

SpecTools == InitTools /\ [][NextTools]_vars

\* ------------------------------------------------------------ the claims

\* the calls that returned a result
OkCalls == {c \in 1..Len(returned) : returned[c].ok}

\* the input element a descriptor animates
ElementOf(f) == elements[f.element]

EndMs(f) == f.startMs + f.durationMs

\* C1 (as claimed): in every result of the allocation pass, every descriptor
\* ends no later than the returned total duration:
\* startMs + durationMs <= duration.
C1_TotalDurationBound ==
    \A c \in OkCalls :
        \A k \in 1..Len(returned[c].frames) :
            EndMs(returned[c].frames[k]) <= returned[c].duration

\* the group ids that have at least two members among the input elements
BigGroups ==
    {g \in {"g1", "g2"} :
        Cardinality({i \in 1..Len(elements) :
                        GroupIdsOf(elements[i]) # <<>> /\ elements[i].groupIds[1] = g}) >= 2}

InGroup(f, g) ==
    GroupIdsOf(ElementOf(f)) # <<>> /\ ElementOf(f).groupIds[1] = g

\* the positions in frames of the descriptors of group g's members
MemberFrames(frames, g) == {k \in 1..Len(frames) : InGroup(frames[k], g)}

\* C2 (as claimed): for every group with at least two members, each member's
\* span begins exactly where the previous member's span ends, and no
\* descriptor of an element outside the group starts inside or overlaps the
\* interval from the first member's start to the last member's end.
C2_GroupContiguous ==
    \A c \in OkCalls : \A g \in BigGroups :
        LET frames == returned[c].frames
            ks     == MemberFrames(frames, g)
            lo     == frames[SetMin(ks)].startMs
            hi     == EndMs(frames[SetMax(ks)])
        IN  /\ \A k \in ks : \A n \in ks :
                   (k < n /\ ~\E m \in ks : k < m /\ m < n)
                       => frames[n].startMs = EndMs(frames[k])
            /\ \A o \in (1..Len(frames)) \ ks :
                   /\ ~(lo <= frames[o].startMs /\ frames[o].startMs < hi)
                   /\ ~(frames[o].startMs < hi /\ EndMs(frames[o]) > lo)

\* C3: for every rectangle or diamond the descriptor gives the stroke three
\* quarters of durationMs from startMs; with a fill colour the fill descriptor
\* starts exactly where the stroke ends, lasts one quarter of durationMs and
\* ends at startMs + durationMs; without a fill colour there is no fill
\* descriptor.
C3_StrokeThenFill ==
    \A c \in OkCalls : \A k \in 1..Len(returned[c].frames) :
        LET f == returned[c].frames[k]
            e == ElementOf(f)
        IN  e.type \in {"rectangle", "diamond"} =>
              /\ f.type = "polygon-animation"
              /\ 4 * f.strokeDuration = 3 * f.durationMs
              /\ IF e.backgroundColor \notin {"", "transparent"}
                 THEN /\ f.fillAnimation.present
                      /\ f.fillAnimation.startMs = f.startMs + f.strokeDuration
                      /\ 4 * f.fillAnimation.durationMs = f.durationMs
                      /\ f.startMs + f.strokeDuration <= f.fillAnimation.startMs
                      /\ EndMs(f.fillAnimation) = EndMs(f)
                 ELSE ~f.fillAnimation.present

\* C3 witness: a call returned the descriptor of a filled diamond, with a
\* stroke and a fill that both take time
C3_Witness ==
    \E c \in OkCalls : \E k \in 1..Len(returned[c].frames) :
        /\ ElementOf(returned[c].frames[k]).type = "diamond"
        /\ returned[c].frames[k].fillAnimation.present
        /\ returned[c].frames[k].strokeDuration > 0
        /\ returned[c].frames[k].fillAnimation.durationMs > 0

\* the scenario of C4: A (rectangle, g1), B (ellipse, g1), C (text, no group),
\* created in that order, no overrides
IsScenarioABC ==
    /\ Len(elements) = 3
    /\ \A i \in 1..3 : elements[i].created = i /\ elements[i].id.animateDuration = NoMatch
    /\ elements[1].type = "rectangle" /\ elements[1].groupIds = <<"g1">>
    /\ elements[2].type = "ellipse"   /\ elements[2].groupIds = <<"g1">>
    /\ elements[3].type = "text"      /\ elements[3].groupIds = <<>>

\* |a - b| < one millisecond
WithinOneMs(a, b) == a - b < Ms(1) /\ b - a < Ms(1)

\* C4: on A, B, C the pass emits A then B in two consecutive slots of 5000/3 ms
\* from 1000 ms, then C for 500 ms where the group ends (4334 ms to the
\* millisecond), and returns that cursor + 500 + 1000 (5834 ms to the
\* millisecond).
C4_ScenarioABC ==
    IsScenarioABC =>
        \A c \in OkCalls :
            LET frames == returned[c].frames
            IN  /\ Len(frames) = 3
                /\ frames[1].element = 1 /\ frames[2].element = 2 /\ frames[3].element = 3
                /\ frames[1].startMs = Ms(1000)
                /\ 3 * frames[1].durationMs = Ms(5000)
                /\ frames[2].startMs = EndMs(frames[1])
                /\ 3 * frames[2].durationMs = Ms(5000)
                /\ frames[3].startMs = EndMs(frames[2])
                /\ WithinOneMs(frames[3].startMs, Ms(4334))
                /\ frames[3].durationMs = Ms(500)
                /\ returned[c].duration = EndMs(frames[3]) + Ms(1000)
                /\ WithinOneMs(returned[c].duration, Ms(5834))

C4_Witness == IsScenarioABC /\ OkCalls # {}

\* C5 (as claimed): for an empty element list the pass returns zero
\* descriptors and a total duration of 3000 ms.
C5_EmptyIsDefault ==
    elements = <<>> =>
        \A c \in OkCalls :
            returned[c].frames = <<>> /\ returned[c].duration = Ms(3000)

\* C9: two calls of the pass on the same animator with the same element list
\* return the same total duration and the same descriptor list; the first call
\* (on a fresh animator) is one of them.
C9_SameResultTwice ==
    \A c \in OkCalls : \A d \in OkCalls : returned[c] = returned[d]

\* C9 witness: the second call returned, after a first call that had marked a
\* group processed
C9_Witness ==
    /\ Cardinality(OkCalls) >= 2
    /\ \E g \in DOMAIN groups : groups[g].processed /\ Len(groups[g].elements) >= 2
    /\ \E i \in 1..Len(elements) : GroupIdsOf(elements[i]) = <<>>

\* the position of input element uid in the resolved order
ResolvedPos(uid) ==
    LET sorted == sortElementsByDaiShiOrder(elements)
    IN  CHOOSE i \in 1..Len(sorted) : sorted[i].id.uid = uid

\* C10 (as claimed): the returned descriptor list is in non-decreasing startMs
\* order, and descriptors with equal startMs are in resolved element order.
C10_SortedByStart ==
    \A c \in OkCalls :
        LET frames == returned[c].frames
        IN  \A i \in 1..Len(frames) : \A j \in 1..Len(frames) :
                i < j =>
                    /\ frames[i].startMs <= frames[j].startMs
                    /\ frames[i].startMs = frames[j].startMs
                           => ResolvedPos(frames[i].element) < ResolvedPos(frames[j].element)

\* generateSynchronizedAnimation has been called with a narration
Synchronizing ==
    mode = "pipeline" /\ ppc \in {"generateAnimation", "done"} /\ narration.present

\* C6 (as claimed): the speed computed for a synchronization pass is a number
\* within [0.5, 2.0].
C6_SpeedClamped ==
    Synchronizing =>
        /\ speed.kind = "fin"
        /\ speed.den <= 2 * speed.num
        /\ speed.num <= 2 * speed.den

RECURSIVE SumDurations(_)
SumDurations(segments) ==
    IF segments = <<>> THEN 0 ELSE Head(segments).duration + SumDurations(Tail(segments))

\* C7 (as claimed): with a narration of n >= 1 segments, the duration of the
\* animation generateSynchronizedAnimation returns is at least the sum of the
\* segments' audio durations plus (n - 1) pauses of 500 ms.
C7_NarrationConserved ==
    (mode = "pipeline" /\ ppc = "done" /\ narration.present /\ Len(narration.segments) >= 1) =>
        finalAnimation.duration >=
            SumDurations(narration.segments) + (Len(narration.segments) - 1) * Ms(500)

\* the number of elements in the segments before segment s
RECURSIVE ElementsBefore(_, _)
ElementsBefore(segments, s) ==
    IF s <= 1 THEN 0 ELSE Len(segments[s - 1].elements) + ElementsBefore(segments, s - 1)

\* C8: the k elements of each narration segment get equal consecutive slots:
\* element i (0-based) spans [startTime + i*duration/k,
\* startTime + (i+1)*duration/k], so the slots tile [startTime, startTime +
\* duration] without overlap or gap.
C8_EqualSlots ==
    Synchronizing =>
        \A s \in 1..Len(narration.segments) :
            LET seg  == narration.segments[s]
                k    == Len(seg.elements)
                base == ElementsBefore(narration.segments, s)
            IN  /\ base + k <= Len(syncedTimestamps)
                /\ \A i \in 0..(k - 1) :
                      LET ts == syncedTimestamps[base + i + 1]
                      IN  /\ ts.id = seg.elements[i + 1].id.uid
                          /\ k * (ts.created - seg.startTime) = i * seg.duration
                          /\ k * (ts.updated - seg.startTime) = (i + 1) * seg.duration
                          /\ i = 0 => ts.created = seg.startTime
                          /\ i = k - 1 => ts.updated = seg.endTime
                          /\ i < k - 1 => syncedTimestamps[base + i + 2].created = ts.updated

\* C8 witness: timestamps were made for a narration whose first segment has
\* two elements and is followed by another segment
C8_Witness ==
    /\ Synchronizing
    /\ Len(narration.segments) = 2
    /\ Len(narration.segments[1].elements) = 2
    /\ Len(syncedTimestamps) = 3
    /\ syncedTimestamps[1].updated > syncedTimestamps[1].created
    /\ syncedTimestamps[3].created > syncedTimestamps[2].updated

\* ---- C11 ----

\* sortedElements holds the result of sortElementsByDaiShiOrder(elements)
SortDone == pc = "loop" \/ returned # <<>>

\* the animateOrder hint of the claim: the number in the id, 0 when absent
HintOf(e) == IF e.id.animateOrder = <<>> THEN 0 ELSE e.id.animateOrder[1]

\* created, falling back to versionNonce, then 0
CreatedOf(e) == IF e.created # 0 THEN e.created ELSE e.versionNonce

\* neither the hint nor (for hint 0) the creation time tells a from b
OrderTie(a, b) == HintOf(a) = HintOf(b) /\ (HintOf(a) = 0 => CreatedOf(a) = CreatedOf(b))

\* C11: the sorted list is a permutation of the input, ascending by hint, among
\* hint 0 ascending by creation time, and ties keep their input position (the
\* uid of an element is its position in the input).
C11_SortedByHintStable ==
    SortDone =>
        /\ Len(sortedElements) = Len(elements)
        /\ {sortedElements[i].id.uid : i \in 1..Len(sortedElements)} = 1..Len(elements)
        /\ \A i \in 1..Len(sortedElements) :
              sortedElements[i] = elements[sortedElements[i].id.uid]
        /\ \A i, j \in 1..Len(sortedElements) :
              i < j =>
                LET a == sortedElements[i]
                    b == sortedElements[j]
                IN  /\ HintOf(a) <= HintOf(b)
                    /\ (HintOf(a) = 0 /\ HintOf(b) = 0) => CreatedOf(a) <= CreatedOf(b)
                    /\ OrderTie(a, b) => a.id.uid < b.id.uid

\* a sort that moved elements by hint and by versionNonce fallback, with a tie kept
C11_Witness ==
    /\ SortDone
    /\ Len(sortedElements) = 3
    /\ sortedElements # elements
    /\ \E i, j \in 1..3 : i < j /\ HintOf(elements[i]) > HintOf(elements[j])
    /\ \E i, j \in 1..3 : /\ i < j
                           /\ HintOf(elements[i]) = 0 /\ HintOf(elements[j]) = 0
                           /\ elements[j].created = 0 /\ elements[j].versionNonce # 0
                           /\ CreatedOf(elements[i]) > CreatedOf(elements[j])


\* ---- C12 ----

\* some element id encodes a negative animateDuration
HasNegativeOverride ==
    \E i \in 1..Len(elements) :
        /\ elements[i].id.animateDuration # NoMatch
        /\ elements[i].id.animateDuration[1] < 0

\* C12: a document with a negative duration override is rejected before
\* allocation begins: the pass produces no descriptor for it and no call on it
\* returns a plan.
C12_NegativeOverrideRejected ==
    HasNegativeOverride => (animatedFrames = <<>> /\ OkCalls = {})

\* ---- C14 ----

\* C14: every line or arrow, whatever its roundness and background colour, gets
\* a path-stroke descriptor over its whole duration and a pointer-motion
\* descriptor with the same startMs and durationMs.
C14_LinePathWithPointer ==
    \A c \in OkCalls : \A k \in 1..Len(returned[c].frames) :
        LET f == returned[c].frames[k]
            e == ElementOf(f)
        IN  e.type \in {"line", "arrow"} =>
              /\ f.type = "path-animation"
              /\ f.strokeDuration = f.durationMs
              /\ f.pointer.present
              /\ f.pointer.type = "pointer-motion"
              /\ f.pointer.startMs = f.startMs
              /\ f.pointer.durationMs = f.durationMs

\* ---- C20 ----

\* C20: within one allocation pass the cursor starts at the 1000 ms leading
\* margin and no step of the pass lowers it.
C20_CursorNeverDecreases ==
    [][ /\ (pc = "idle" /\ pc' = "loop") => currentMs' = Ms(leadingMarginMs)
        /\ pc = "loop" => currentMs' >= currentMs ]_vars


\* ---- C13 ----

\* the speed a call sets for itself
OwnSpeed(i) ==
    calculateAnimationSpeed(Len(elements), calls[i].narration.totalDuration)

\* what call i returns when it is the only call on the pipeline, given how its
\* allocation pass ended
AloneResult(i) ==
    LET r == returned[calls[i].base + 1]
        animationDuration == calculateDuration(calls[i].timestamps)
    IN  IF r.ok
        THEN [type |-> "dai-shi-progressive-animation", duration |-> r.duration,
              frames |-> Len(r.frames)]
        ELSE [type |-> "frame-by-frame", duration |-> animationDuration,
              frames |-> totalFrames(animationDuration, OwnSpeed(i))]

\* C13: when two calls with narrations interleave on one pipeline, each returns
\* what it returns when run alone: its frame timing comes from its own speed.
C13_CallsIndependent ==
    (\A j \in DOMAIN calls : calls[j].narration.present) =>
        \A i \in DOMAIN calls :
            calls[i].stage = "done" => calls[i].result = AloneResult(i)

\* ---- C15 ----

\* the number of elements the narration of call i covers
CoveredCount(i) == Len(TimelineTimestamps(calls[i].narration.segments, 1))

\* C15: in the synchronized schedule the elements no segment covers get slots
\* of 500 ms each, one after another, the first starting at
\* timeline.totalDuration.
C15_UncoveredSlots ==
    \A i \in DOMAIN calls :
        (calls[i].stage # "new" /\ calls[i].narration.present) =>
            \A k \in 1..(Len(calls[i].timestamps) - CoveredCount(i)) :
                LET t == calls[i].timestamps[CoveredCount(i) + k]
                IN  /\ t.created = calls[i].narration.totalDuration
                                    + (k - 1) * Ms(individualDur)
                    /\ t.updated = t.created + Ms(individualDur)


\* ---- C16 ----

\* no path was given: undefined, '' or 0
NoPathGiven(input) == input.path \in {"undefined", "empty", "zero"}

\* the error of the first failing check, in the order of the claim; "" when
\* none of its checks fails
FirstFailingCheck(input) ==
    IF NoPathGiven(input) THEN "File path is required"
    ELSE IF input.path # "string" THEN "File path must be a string"
    ELSE IF input.file.kind = "absent" THEN "File not found"
    ELSE IF input.file.kind = "garbage" THEN "Invalid JSON in file"
    ELSE IF input.file.kind = "noElements"
         THEN "Invalid Excalidraw file: missing or invalid \"elements\" array"
    ELSE ""

\* C16: parseFile rejects with the error of the first failing check (path
\* required, path a string, file found, JSON valid, elements an array), and it
\* resolves only when none of them fails.
C16_FirstFailingCheck ==
    parsed.outcome.status # "none" =>
        LET expected == FirstFailingCheck(parsed.input)
        IN  /\ expected # "" =>
                  (parsed.outcome.status = "rejected" /\ parsed.outcome.message = expected)
            /\ parsed.outcome.status = "resolved" => expected = ""

\* a call without a path was rejected on a parser that had parsed a document
C16_Witness ==
    /\ parsed.input.path = "undefined"
    /\ parsed.outcome.status = "rejected"
    /\ parsed.before.elements # <<>>

\* ---- C17 ----

\* created, a missing one counting as 0
CreatedOf0(el) == IF el.created = <<>> THEN 0 ELSE el.created[1]

\* C17: after a successful parseFile the returned elements are in
\* non-decreasing order of created, and timestamps has one entry per element,
\* in the same order, with the same ids.
C17_SortedWithTimestamps ==
    parsed.outcome.status = "resolved" =>
        LET es == parsed.outcome.elements
            ts == parsed.outcome.timestamps
        IN  /\ \A i, j \in 1..Len(es) : i < j => CreatedOf0(es[i]) <= CreatedOf0(es[j])
            /\ Len(ts) = Len(es)
            /\ \A i \in 1..Len(es) : ts[i].id = es[i].id

\* a document of three elements that the parser had to reorder, one of them
\* without created
C17_Witness ==
    /\ parsed.outcome.status = "resolved"
    /\ Len(parsed.outcome.elements) = 3
    /\ parsed.outcome.elements # parsed.input.file.elements
    /\ \E i \in 1..3 : parsed.outcome.elements[i].created = <<>>

\* ---- C18 ----

\* C18: exportVideo rejects before any export is started, with 'Animation data
\* is required' without animation data, 'Animation data must be an object' for
\* a non-object, and 'Output filename must be a string' for a non-string file
\* name.
C18_ExportValidation ==
    exporter.status # "none" =>
        LET expected ==
              IF exporter.input.data = "undefined" THEN "Animation data is required"
              ELSE IF exporter.input.data = "string" THEN "Animation data must be an object"
              ELSE IF exporter.input.fileName = "number" THEN "Output filename must be a string"
              ELSE ""
        IN  expected # "" =>
              /\ exporter.status = "rejected"
              /\ ~exporter.started
              /\ exporter.message = expected

\* ---- C19 ----

\* C19: with valid credentials and no stored token, the authorize script run
\* with a valid code ends well with token.json saved, and a later initialize()
\* succeeds from the stored token.
C19_AuthorizeStoresToken ==
    (/\ script.pc = "exited"
     /\ script.code = "valid"
     /\ script.tokenAtStart = "absent"
     /\ disk.credentials = "valid") =>
        /\ script.exit = 0
        /\ disk.token = "stored"
        /\ script.later # "none" => script.later = "ok"


\* ---- C21 ----

\* the descriptors emitted so far and those of the plans returned
AllFrames ==
    {animatedFrames[k] : k \in 1..Len(animatedFrames)}
    \cup UNION { {returned[c].frames[k] : k \in 1..Len(returned[c].frames)} : c \in OkCalls }

\* C21: no descriptor, and no nested fill or pointer descriptor, has a negative
\* durationMs or a negative startMs.
C21_NoNegativeTimes ==
    \A f \in AllFrames :
        /\ f.startMs >= 0 /\ f.durationMs >= 0
        /\ f.fillAnimation.present => (f.fillAnimation.startMs >= 0 /\ f.fillAnimation.durationMs >= 0)
        /\ f.pointer.present => (f.pointer.startMs >= 0 /\ f.pointer.durationMs >= 0)

\* ---- C22 ----

\* C22: during the pass every descriptor sits exactly on the interval the
\* cursor reserved for its element: the first starts at the leading margin,
\* each one ends where the next starts, and the last ends at the cursor.
C22_AnchoredAtReservedInterval ==
    pc = "loop" =>
        \A k \in 1..Len(animatedFrames) :
            /\ k = 1 => animatedFrames[k].startMs = Ms(leadingMarginMs)
            /\ EndMs(animatedFrames[k]) =
                 IF k < Len(animatedFrames) THEN animatedFrames[k + 1].startMs ELSE currentMs


\* ---- C23 ----

\* the first groupId of an element of the resolved sequence, <<>> if it has none
FirstGroupOf(e) == IF GroupIdsOf(e) = <<>> THEN <<>> ELSE <<GroupIdsOf(e)[1]>>

\* the members of group g as they occur in the resolved sequence
MembersInOrder(g) == SelectSeq(sortedElements, LAMBDA e : FirstGroupOf(e) = <<g>>)

\* position i of the resolved sequence is the first member of its group
FirstOfGroup(i) ==
    \A j \in 1..(i - 1) : FirstGroupOf(sortedElements[j]) # FirstGroupOf(sortedElements[i])

\* C23: a group is scheduled once, where its first member is reached: that
\* iteration emits every member in group-member order, each moving the cursor
\* on by 5000/(memberCount + 1) ms; the iteration of any later member emits
\* nothing and leaves the cursor alone.
C23_GroupScheduledOnce ==
    [][ (pc = "loop" /\ idx' = idx + 1 /\ FirstGroupOf(sortedElements[idx]) # <<>>) =>
          LET members == MembersInOrder(FirstGroupOf(sortedElements[idx])[1])
              n       == Len(members)
              share   == Ms(groupDur) \div (n + 1)
              before  == Len(animatedFrames)
          IN  IF FirstOfGroup(idx)
              THEN /\ Len(animatedFrames') = before + n
                   /\ SubSeq(animatedFrames', 1, before) = animatedFrames
                   /\ \A k \in 1..n :
                        /\ animatedFrames'[before + k].element = members[k].id.uid
                        /\ animatedFrames'[before + k].startMs = currentMs + (k - 1) * share
                   /\ currentMs' = currentMs + n * share
              ELSE /\ animatedFrames' = animatedFrames
                   /\ currentMs' = currentMs ]_vars

\* a later member of a group has been passed, with an element outside the
\* group earlier in the resolved sequence
C23_Witness ==
    /\ pc = "loop"
    /\ \E i \in 1..Len(sortedElements) :
         /\ i < idx
         /\ FirstGroupOf(sortedElements[i]) # <<>>
         /\ ~FirstOfGroup(i)
         /\ \E j \in 1..(i - 1) : FirstGroupOf(sortedElements[j]) # FirstGroupOf(sortedElements[i])


\* ---- C27 ----

\* C27: a returned plan has one top-level descriptor per input element: as
\* many descriptors as elements, and every element in exactly one of them.
C27_OneDescriptorPerElement ==
    \A c \in OkCalls :
        LET frames == returned[c].frames
        IN  /\ Len(frames) = Len(elements)
            /\ \A i \in 1..Len(elements) :
                 Cardinality({k \in 1..Len(frames) : frames[k].element = elements[i].id.uid}) = 1

\* a plan was returned for a list in which an element outside a group lies
\* between two members of that group in resolved order
C27_Witness ==
    /\ OkCalls # {}
    /\ \E i, j, k \in 1..Len(sortedElements) :
         /\ i < j /\ j < k
         /\ FirstGroupOf(sortedElements[i]) # <<>>
         /\ FirstGroupOf(sortedElements[i]) = FirstGroupOf(sortedElements[k])
         /\ FirstGroupOf(sortedElements[j]) # FirstGroupOf(sortedElements[i])


\* ---- C24 ----

\* the groups that list element e among their members
GroupsHolding(e) ==
    {g \in DOMAIN groups : \E k \in 1..Len(groups[g].elements) : groups[g].elements[k] = e}

\* position of an element in the resolved sequence
SortedPos(e) == CHOOSE i \in 1..Len(sortedElements) : sortedElements[i] = e

\* C24: once a call has collected its groups, an element with a group
\* membership is in exactly one group, the one named by its first groupId, and
\* an element without is in none; members are listed once each, in resolved
\* order; every group has a member, and is unprocessed before the loop starts.
C24_GroupsByFirstId ==
    (pc # "idle" \/ returned # <<>>) =>
        /\ \A i \in 1..Len(sortedElements) :
             GroupsHolding(sortedElements[i]) =
                 IF GroupIdsOf(sortedElements[i]) = <<>> THEN {}
                 ELSE {GroupIdsOf(sortedElements[i])[1]}
        /\ \A g \in DOMAIN groups :
             /\ Len(groups[g].elements) >= 1
             /\ \A k \in 1..Len(groups[g].elements) :
                  \E i \in 1..Len(sortedElements) : sortedElements[i] = groups[g].elements[k]
             /\ \A k, l \in 1..Len(groups[g].elements) :
                  k < l => SortedPos(groups[g].elements[k]) < SortedPos(groups[g].elements[l])
             /\ (pc = "loop" /\ idx = 1) => ~groups[g].processed


\* ---- C25 ----

\* the duration the id of an ungrouped element asks for: its animateDuration
\* when the id carries one (0 included), the default otherwise
DeclaredDuration(e) ==
    IF e.id.animateDuration # NoMatch THEN Ms(e.id.animateDuration[1]) ELSE Ms(individualDur)

\* C25: the iteration of an ungrouped element emits a descriptor lasting the
\* element's non-negative animateDuration when its id has one, 500 ms
\* otherwise, and moves the cursor on by exactly that amount.
C25_UngroupedDuration ==
    [][ (/\ pc = "loop" /\ idx' = idx + 1
         /\ GroupIdsOf(sortedElements[idx]) = <<>>
         /\ DeclaredDuration(sortedElements[idx]) >= 0) =>
          /\ Len(animatedFrames') = Len(animatedFrames) + 1
          /\ animatedFrames'[Len(animatedFrames')].durationMs = DeclaredDuration(sortedElements[idx])
          /\ currentMs' = currentMs + DeclaredDuration(sortedElements[idx]) ]_vars


\* ---- C26 ----

\* C26: the timeline lays the segments out in input order on a running
\* cursor: the first starts at 0, each later one 500 ms after its predecessor
\* ended, each ends after its audio duration, and totalDuration is the sum of
\* the audio durations plus one 500 ms pause between consecutive segments.
C26_TimelineLayout ==
    (ppc # "start" /\ narration.present) =>
        LET segments == narration.segments
            n        == Len(segments)
        IN  /\ \A k \in 1..n :
                 /\ segments[k].startTime =
                        IF k = 1 THEN 0 ELSE segments[k - 1].endTime + Ms(pauseMs)
                 /\ segments[k].endTime = segments[k].startTime + segments[k].duration
            /\ narration.totalDuration =
                   SumDurations(segments) + (IF n = 0 THEN 0 ELSE (n - 1) * Ms(pauseMs))


\* ---- C28 ----

\* C28: a call with narration leaves the animator's speed as it was before
\* the call: whenever no call is under way, the speed is the one the
\* pipeline was constructed with, so a later call runs at that speed.
C28_SpeedRestored ==
    (mode = "calls" /\ \A j \in DOMAIN calls : calls[j].stage # "running") =>
        speed = Fin(1, 1)


\* ---- C29 ----

\* C29: a rejected parseFile leaves the parser's elements and metadata as
\* they were before the call.
C29_RejectKeepsParser ==
    (mode = "parse" /\ parsed.outcome.status = "rejected") => parser = parsed.before


\* ---- C30 ----

\* the elements of the groups, one group after another
RECURSIVE Flatten(_)
Flatten(gs) == IF gs = <<>> THEN <<>> ELSE Head(gs).elements \o Flatten(Tail(gs))

\* C30: the narration groups cut the elements, in created/versionNonce order,
\* into consecutive groups: every element is in exactly one group, a group
\* has 1 to 3 elements of one type, a text is alone in its group, and group i
\* (0-based) spans 3000*i to 3000*(i+1) ms.  The timeline's segments carry
\* the groups' elements.
C30_NarrationGroups ==
    (mode = "pipeline" /\ ppc # "start" /\ narration.present) =>
        LET gs  == groupElements(elements)
            all == Flatten(gs)
        IN  /\ Len(all) = Len(elements)
            /\ \A i \in 1..Len(elements) :
                 Cardinality({k \in 1..Len(all) : all[k] = elements[i]}) = 1
            /\ \A k \in 1..(Len(all) - 1) : TimeOf(all[k]) <= TimeOf(all[k + 1])
            /\ \A g \in 1..Len(gs) :
                 /\ Len(gs[g].elements) >= 1
                 /\ Len(gs[g].elements) <= 3
                 /\ \A k \in 1..Len(gs[g].elements) :
                      /\ gs[g].elements[k].type = gs[g].type
                      /\ gs[g].type = "text" => Len(gs[g].elements) = 1
                 /\ gs[g].id = g - 1
                 /\ gs[g].startTime = Ms(3000) * (g - 1)
                 /\ gs[g].endTime = Ms(3000) * g
            /\ Len(narration.segments) = Len(gs)
            /\ \A g \in 1..Len(gs) : narration.segments[g].elements = gs[g].elements

\* a narration was made for four shapes of one kind: a full group of three
\* and a second group for the fourth
C30_Witness ==
    /\ mode = "pipeline" /\ ppc # "start" /\ narration.present
    /\ Len(narration.segments) = 2
    /\ Len(narration.segments[1].elements) = 3
    /\ narration.segments[2].elements[1].type = narration.segments[1].elements[1].type

====
